---- MODULE Spec2Model ----
(***************************************************************************)
(* Tiling / detection / merge pipeline of the data-centre detector:        *)
(*   CensusTractProcessor  (src/src/process_census.py)                     *)
(*   NAIPPatchProcessor    (src/src/naip_patch_processor.py)               *)
(*                                                                         *)
(* Numbers: pixel coordinates are integers; confidences are integers in    *)
(* hundredths (0.85 is 85); an IoU threshold is a pair <<num, den>> and    *)
(* every ratio is compared by cross-multiplication, so no rounding is      *)
(* introduced by the model.  A 'center' is kept in half-pixel units        *)
(* (<<x1 + x2, y1 + y2>> stands for ((x1+x2)/2, (y1+y2)/2)).               *)
(***************************************************************************)
EXTENDS Integers, Sequences, FiniteSets, TLC

VARIABLES
    \* ---- split_image_into_tiles called on its own
    tile_size, overlap, width, height, split_result,
    \* ---- add_patch_grid_to_detection_result called on an image of the same size
    grid_result,
    \* ---- remove_duplicate_detections called on its own
    nms_input, iou_threshold, nms_result,
    \* ---- one run of process_census_tract
    raster, output_path, pc, image, tiles, positions, tile_i, detections,
    mapped_detections, final_detections, result_image, output_file, err,
    dedupe_log, oracle_log,
    \* ---- one run of process_tiles_to_folders
    bpc, tile_files, file_i, before_dir, after_dir, processed_tiles,
    all_detections, summary

tilerVars == <<tile_size, overlap, width, height, split_result, grid_result>>
nmsVars   == <<nms_input, iou_threshold, nms_result>>
pipeVars  == <<raster, output_path, pc, image, tiles, positions, tile_i, detections,
               mapped_detections, final_detections, result_image, output_file, err,
               dedupe_log, oracle_log>>
batchVars == <<bpc, tile_files, file_i, before_dir, after_dir, processed_tiles,
               all_detections, summary>>
vars == <<tilerVars, nmsVars, pipeVars, batchVars>>

(***************************************************************************)
(* Bounds of the model and constants of the program                        *)
(***************************************************************************)
MaxDim     == 6      \* raster sides 1..MaxDim when the tiler is called on its own
MaxTile    == 3      \* tile_size and overlap range over -1..MaxTile there
MaxDets    == 3      \* length of a detection list given to the deduplicator alone
MaxRasters == 2      \* files in the batch's input directory
MaxCands   == 1      \* candidate boxes the oracle returns for one tile
MaxGridUnits == 90   \* image sides up to 20 * MaxGridUnits + 1 pixels under the patch grid

DefaultTileSize      == 640   \* split_image_into_tiles(tile_size=640)
DefaultOverlap       == 100   \* split_image_into_tiles(overlap=100)
SelfTileSize         == 640   \* self.tile_size = 640
SelfOverlap          == 100   \* self.overlap = 100
ConfidenceThreshold  == 85    \* process_tiles(confidence_threshold=0.85)
ScoreThreshold       == 30    \* NMSBoxes(score_threshold=0.3)
DefaultIou           == <<3, 10>>   \* remove_duplicate_detections(iou_threshold=0.3)

None == "None"

Max(a, b) == IF a >= b THEN a ELSE b
Min(a, b) == IF a <= b THEN a ELSE b

(***************************************************************************)
(* Python built-ins used by the tiler                                      *)
(***************************************************************************)
\* len(range(start, stop, step)), step # 0
PyRangeLen(start, stop, step) ==
    IF step > 0
    THEN (IF stop > start THEN (stop - start + step - 1) \div step ELSE 0)
    ELSE (IF start > stop THEN (start - stop + (0 - step) - 1) \div (0 - step) ELSE 0)

\* list(range(start, stop, step)), step # 0
PyRange(start, stop, step) ==
    [k \in 1..PyRangeLen(start, stop, step) |-> start + (k - 1) * step]

\* a % b of Python (sign of the divisor), b # 0
PyMod(a, b) == IF b > 0 THEN a % b ELSE 0 - ((0 - a) % (0 - b))

\* the index interval [lo, hi) that the slice a:b selects in an axis of length n
SliceBound(a, n) == IF a < 0 THEN Max(a + n, 0) ELSE Min(a, n)
NumpySlice(a, b, n) ==
    LET lo == SliceBound(a, n)
        hi == SliceBound(b, n)
    IN  <<lo, Max(lo, hi)>>

\* image[y:y+tile_size, x:x+tile_size] as the pixel rectangle it views
Crop(w, h, x, y, ts) ==
    [xs |-> NumpySlice(x, x + ts, w), ys |-> NumpySlice(y, y + ts, h)]

(***************************************************************************)
(* CensusTractProcessor.split_image_into_tiles                             *)
(***************************************************************************)
\* the nested loop "for y in ys: for x in xs: positions.append((x, y))"
GridPositions(xs, ys) ==
    [k \in 1..(Len(ys) * Len(xs)) |->
        <<xs[((k - 1) % Len(xs)) + 1], ys[((k - 1) \div Len(xs)) + 1]>>]

\* "if width % step != 0" (and its twin for the height)
NeedsEdge(dim, step) == PyMod(dim, step) # 0

SplitPositions(w, h, ts, ov) ==
    LET step    == ts - ov
        xs      == PyRange(0, w - ts + 1, step)
        ys      == PyRange(0, h - ts + 1, step)
        regular == GridPositions(xs, ys)
        right   == IF NeedsEdge(w, step)
                   THEN [k \in 1..Len(ys) |-> <<w - ts, ys[k]>>] ELSE <<>>
        bottom  == IF NeedsEdge(h, step)
                   THEN [k \in 1..Len(xs) |-> <<xs[k], h - ts>>] ELSE <<>>
        corner  == IF NeedsEdge(w, step) /\ NeedsEdge(h, step)
                   THEN << <<w - ts, h - ts>> >> ELSE <<>>
    IN  regular \o right \o bottom \o corner

\* add_patch_grid_to_detection_result as it would be without its edge cases
PatchGridRegularOnly(w, h) ==
    LET step == SelfTileSize - SelfOverlap
        ys   == PyRange(0, h - SelfTileSize + 1, step)
        xs   == PyRange(0, w - SelfTileSize + 1, step)
    IN  [k \in 1..(Len(ys) * Len(xs)) |->
            LET x == xs[((k - 1) % Len(xs)) + 1]
                y == ys[((k - 1) \div Len(xs)) + 1]
            IN  <<x, y, x + SelfTileSize, y + SelfTileSize>>]

\* add_patch_grid_to_detection_result: the rectangles (x1, y1, x2, y2) it draws
\* on an image w wide and h high, in the order it draws them
PatchGridRectangles(w, h) ==
    LET step == SelfTileSize - SelfOverlap
        ys   == PyRange(0, h - SelfTileSize + 1, step)
        xs   == PyRange(0, w - SelfTileSize + 1, step)
        Rectangle(x, y) == <<x, y, x + SelfTileSize, y + SelfTileSize>>
        grid == [k \in 1..(Len(ys) * Len(xs)) |->
                    Rectangle(xs[((k - 1) % Len(xs)) + 1],
                              ys[((k - 1) \div Len(xs)) + 1])]
        right == IF PyMod(w, step) # 0
                 THEN [k \in 1..Len(ys) |-> Rectangle(w - SelfTileSize, ys[k])]
                 ELSE <<>>
        bottom == IF PyMod(h, step) # 0
                  THEN [k \in 1..Len(xs) |-> Rectangle(xs[k], h - SelfTileSize)]
                  ELSE <<>>
        corner == IF PyMod(w, step) # 0 /\ PyMod(h, step) # 0
                  THEN << Rectangle(w - SelfTileSize, h - SelfTileSize) >>
                  ELSE <<>>
    IN  grid \o right \o bottom \o corner

\* the call as a whole: range() with a zero step raises ValueError on line 21
SplitImageIntoTiles(w, h, ts, ov) ==
    IF ts - ov = 0
    THEN [error |-> "ValueError", tiles |-> <<>>, positions |-> <<>>]
    ELSE LET ps == SplitPositions(w, h, ts, ov)
         IN  [error     |-> None,
              tiles     |-> [k \in 1..Len(ps) |-> Crop(w, h, ps[k][1], ps[k][2], ts)],
              positions |-> ps]

(***************************************************************************)
(* CensusTractProcessor.process_tiles                                      *)
(*   oracle[k] is what self.model(tile) does on the k-th tile:             *)
(*   [raises, boxes], the call raising or returning the sequence of        *)
(*   candidate boxes, each [conf, xyxy].                                   *)
(***************************************************************************)
\* "if conf > confidence_threshold"
\* PassesConfidence as it would be with >= for >
PassesConfidenceInclusive(conf, threshold) == conf >= threshold

PassesConfidence(conf, threshold) == conf > threshold

\* the detection dict built on lines 72-77; tile_idx is enumerate()'s 0-based i
TileDetection(i, cand) ==
    [tile_idx   |-> i,
     confidence |-> cand.conf,
     bbox       |-> cand.xyxy,
     center     |-> <<cand.xyxy[1] + cand.xyxy[3], cand.xyxy[2] + cand.xyxy[4]>>]

\* the inner loop over one tile's boxes
DetectionsOfTile(i, cands, threshold) ==
    LET keep == SelectSeq(cands, LAMBDA c : PassesConfidence(c.conf, threshold))
    IN  [k \in 1..Len(keep) |-> TileDetection(i, keep[k])]

\* tiles 1..n of the loop, none of which raised
RECURSIVE DetectionsUpTo(_, _, _)
DetectionsUpTo(oracle, n, threshold) ==
    IF n = 0 THEN <<>>
    ELSE DetectionsUpTo(oracle, n - 1, threshold)
            \o DetectionsOfTile(n - 1, oracle[n].boxes, threshold)

\* the call as a whole: the first tile on which the oracle raises ends it
ProcessTiles(nTiles, oracle, threshold) ==
    IF \E k \in 1..nTiles : oracle[k].raises
    THEN [error |-> "DetectionFailure", detections |-> <<>>]
    ELSE [error |-> None, detections |-> DetectionsUpTo(oracle, nTiles, threshold)]

(***************************************************************************)
(* CensusTractProcessor.map_to_full_image                                  *)
(***************************************************************************)
\* MapDetection as it would be with only the first corner translated
MapDetectionShiftingOneCorner(det, ps) ==
    LET origin == ps[det.tile_idx + 1]
        full   == <<det.bbox[1] + origin[1], det.bbox[2] + origin[2],
                    det.bbox[3], det.bbox[4]>>
    IN  [confidence |-> det.confidence,
         bbox       |-> full,
         center     |-> <<full[1] + full[3], full[2] + full[4]>>]

MapDetection(det, ps) ==
    LET origin == ps[det.tile_idx + 1]
        full   == <<det.bbox[1] + origin[1], det.bbox[2] + origin[2],
                    det.bbox[3] + origin[1], det.bbox[4] + origin[2]>>
    IN  [confidence |-> det.confidence,
         bbox       |-> full,
         center     |-> <<full[1] + full[3], full[2] + full[4]>>]

MapToFullImage(dets, ps) == [k \in 1..Len(dets) |-> MapDetection(dets[k], ps)]

(***************************************************************************)
(* cv2.dnn.NMSBoxes as remove_duplicate_detections calls it (eta = 1,      *)
(* top_k = 0).  The library reads each box as a Rect: (x, y, width,        *)
(* height).                                                                *)
(***************************************************************************)
\* the Rect that NMSBoxes builds from the 4-list it is handed
AsRect(b) == [x |-> b[1], y |-> b[2], w |-> b[3], h |-> b[4]]

RectArea(r)  == r.w * r.h
RectEmpty(r) == r.w <= 0 \/ r.h <= 0

\* area of (a & b)
RectInterArea(a, b) ==
    IF RectEmpty(a) \/ RectEmpty(b) THEN 0
    ELSE LET iw == Min(a.x + a.w, b.x + b.w) - Max(a.x, b.x)
             ih == Min(a.y + a.h, b.y + b.h) - Max(a.y, b.y)
         IN  IF iw <= 0 \/ ih <= 0 THEN 0 ELSE iw * ih

\* rectOverlap(a, b) > thr, with rectOverlap = 1 - jaccardDistance: two boxes
\* of total area 0 are at distance 0 (overlap 1)
RectOverlapExceeds(a, b, thr) ==
    LET inter == RectInterArea(a, b)
        union == RectArea(a) + RectArea(b) - inter
    IN  IF RectArea(a) + RectArea(b) <= 0
        THEN thr[2] > thr[1]
        ELSE IF union > 0 THEN inter * thr[2] > thr[1] * union
                          ELSE inter * thr[2] < thr[1] * union

\* GetMaxScoreIndex: "if (scores[i] > threshold)"
PassesScore(score, threshold) == score > threshold

\* BestIndex as it would be with a sort that puts the later of two equal scores first
BestIndexLastOnTies(scores, S) ==
    CHOOSE i \in S : \A j \in S :
        scores[i] > scores[j] \/ (scores[i] = scores[j] /\ i >= j)

\* std::stable_sort by descending score: of the indices in S, the first
BestIndex(scores, S) ==
    CHOOSE i \in S : \A j \in S :
        scores[i] > scores[j] \/ (scores[i] = scores[j] /\ i <= j)

RECURSIVE SortedByScore(_, _)
SortedByScore(scores, S) ==
    IF S = {} THEN <<>>
    ELSE LET i == BestIndex(scores, S)
         IN  <<i>> \o SortedByScore(scores, S \ {i})

\* NMSFast_: a candidate is kept iff it overlaps no kept box by more than thr
RECURSIVE NMSLoop(_, _, _, _, _)
NMSLoop(boxes, order, k, kept, thr) ==
    IF k > Len(order) THEN kept
    ELSE LET idx  == order[k]
             keep == \A j \in 1..Len(kept) :
                        ~RectOverlapExceeds(AsRect(boxes[idx]), AsRect(boxes[kept[j]]), thr)
         IN  NMSLoop(boxes, order, k + 1, IF keep THEN Append(kept, idx) ELSE kept, thr)

\* the indices NMSBoxes returns (1-based here)
NMSBoxes(boxes, scores, score_threshold, nms_threshold) ==
    LET cand  == {i \in 1..Len(boxes) : PassesScore(scores[i], score_threshold)}
        order == SortedByScore(scores, cand)
    IN  NMSLoop(boxes, order, 1, <<>>, nms_threshold)

(***************************************************************************)
(* CensusTractProcessor.remove_duplicate_detections                        *)
(***************************************************************************)
\* KeptIndices as it would be with the last index NMSBoxes returns left out
KeptIndicesDroppingLast(dets, thr) ==
    LET idx == IF Len(dets) = 0 THEN <<>>
               ELSE NMSBoxes([k \in 1..Len(dets) |-> dets[k].bbox],
                             [k \in 1..Len(dets) |-> dets[k].confidence],
                             ScoreThreshold, thr)
    IN  SubSeq(idx, 1, Len(idx) - 1)

\* the indices of the detections it returns, in the order it returns them
KeptIndices(dets, thr) ==
    IF Len(dets) = 0 THEN <<>>
    ELSE NMSBoxes([k \in 1..Len(dets) |-> dets[k].bbox],
                  [k \in 1..Len(dets) |-> dets[k].confidence],
                  ScoreThreshold, thr)

RemoveDuplicateDetections(dets, thr) ==
    LET idx == KeptIndices(dets, thr)
    IN  [k \in 1..Len(idx) |-> dets[idx[k]]]

(***************************************************************************)
(* CensusTractProcessor.process_census_tract, start to end, on the file f  *)
(* with the oracle behaving as `oracle` on its tiles                       *)
(***************************************************************************)
\* cv2.imread(image_path): None for a file it cannot decode.  The pixels of an
\* image are its size and, in `drawn`, the boxes drawn over what the file holds.
Imread(f) ==
    IF f.loadable
    THEN [loaded |-> TRUE,  width |-> f.width, height |-> f.height, drawn |-> <<>>]
    ELSE [loaded |-> FALSE, width |-> 0,       height |-> 0,        drawn |-> <<>>]

\* Step 5: the copy of the image with one rectangle and label per detection
Rendered(img, dets) ==
    [width |-> img.width, height |-> img.height,
     drawn |-> img.drawn \o [k \in 1..Len(dets) |-> dets[k].bbox]]

NoFile == [width |-> 0, height |-> 0, drawn |-> <<>>]

TilesOfFile(f) ==
    SplitImageIntoTiles(f.width, f.height, DefaultTileSize, DefaultOverlap)

ProcessCensusTract(f, oracle) ==
    LET img   == Imread(f)
        split == TilesOfFile(f)
        found == ProcessTiles(Len(split.tiles), oracle, ConfidenceThreshold)
        final == RemoveDuplicateDetections(
                     MapToFullImage(found.detections, split.positions), DefaultIou)
    IN  IF ~img.loaded
        THEN [error |-> "ValueError", detections |-> <<>>, saved |-> NoFile]
        ELSE IF split.error # None
        THEN [error |-> split.error, detections |-> <<>>, saved |-> NoFile]
        ELSE IF found.error # None
        THEN [error |-> found.error, detections |-> <<>>, saved |-> NoFile]
        ELSE [error |-> None, detections |-> final, saved |-> Rendered(img, final)]

(***************************************************************************)
(* Inputs                                                                  *)
(***************************************************************************)
RECURSIVE SeqsUpTo(_, _)
SeqsUpTo(S, n) ==
    IF n = 0 THEN {<<>>}
    ELSE LET shorter == SeqsUpTo(S, n - 1)
         IN  shorter \cup {Append(q, e) : q \in {r \in shorter : Len(r) = n - 1}, e \in S}

Range(q) == {q[k] : k \in 1..Len(q)}

TileParams == (0 - 1)..MaxTile
Dims       == 1..MaxDim

Boxes  == {<<0, 0, 10, 10>>, <<1, 1, 10, 10>>, <<4, 4, 5, 5>>, <<5, 5, 6, 6>>}
Scores == {20, 40, ConfidenceThreshold, 90}
IouThresholds == {DefaultIou, <<1, 2>>}

GlobalDetections ==
    {[confidence |-> c, bbox |-> b, center |-> <<b[1] + b[3], b[2] + b[4]>>] :
        c \in Scores, b \in Boxes}

OracleBoxes == {<<0, 0, 10, 10>>, <<1, 1, 10, 10>>}
Candidates  == {[conf |-> c, xyxy |-> b] : c \in {ConfidenceThreshold, 90}, b \in OracleBoxes}
OracleOutcomes ==
    {[raises |-> TRUE, boxes |-> <<>>]}
        \cup {[raises |-> FALSE, boxes |-> q] : q \in SeqsUpTo(Candidates, MaxCands)}

\* (width, height) of the image files
Shapes      == {<<300, 300>>, <<1080, 640>>, <<1080, 1080>>, <<1180, 1080>>}
BatchShapes == {<<300, 300>>, <<1080, 640>>}
FilesOf(shapes) ==
    {[copyable |-> c, loadable |-> l, width |-> s[1], height |-> s[2]] :
        c \in BOOLEAN, l \in BOOLEAN, s \in shapes}

(***************************************************************************)
(* States of the parts a specification does not exercise                   *)
(***************************************************************************)
Pending == [error |-> "pending", tiles |-> <<>>, positions |-> <<>>]
NotDrawn == [drawn |-> FALSE, rectangles |-> <<>>]
NoImage == [loaded |-> FALSE, width |-> 0, height |-> 0, drawn |-> <<>>]
NoSummary == [written |-> FALSE, total_tiles_processed |-> 0,
              total_detections |-> 0, tiles |-> <<>>]

IdleTiler ==
    /\ tile_size = DefaultTileSize /\ overlap = DefaultOverlap
    /\ width = 0 /\ height = 0 /\ split_result = Pending
    /\ grid_result = NotDrawn
IdleNMS ==
    /\ nms_input = <<>> /\ iou_threshold = DefaultIou
    /\ nms_result = [returned |-> FALSE, indices |-> <<>>, kept |-> <<>>]
IdlePipe ==
    /\ raster = [copyable |-> FALSE, loadable |-> FALSE, width |-> 0, height |-> 0]
    /\ output_path = FALSE /\ pc = "idle" /\ image = NoImage
    /\ tiles = <<>> /\ positions = <<>> /\ tile_i = 0 /\ detections = <<>>
    /\ mapped_detections = <<>> /\ final_detections = <<>>
    /\ result_image = NoFile /\ output_file = NoFile /\ err = None
    /\ dedupe_log = <<>> /\ oracle_log = <<>>
IdleBatch ==
    /\ bpc = "idle" /\ tile_files = <<>> /\ file_i = 0
    /\ before_dir = {} /\ after_dir = {} /\ processed_tiles = <<>>
    /\ all_detections = <<>> /\ summary = NoSummary

(***************************************************************************)
(* SpecTiler: split_image_into_tiles on any raster size and parameters     *)
(***************************************************************************)
TilerInit ==
    /\ tile_size \in TileParams /\ overlap \in TileParams
    /\ width \in Dims /\ height \in Dims
    /\ split_result = Pending
    /\ grid_result = NotDrawn
    /\ IdleNMS /\ IdlePipe /\ IdleBatch

SplitImageCall ==
    /\ split_result = Pending
    /\ split_result' = SplitImageIntoTiles(width, height, tile_size, overlap)
    /\ UNCHANGED <<tile_size, overlap, width, height, grid_result,
                   nmsVars, pipeVars, batchVars>>

SpecTiler == TilerInit /\ [][SplitImageCall]_vars

(***************************************************************************)
(* SpecNMS: remove_duplicate_detections on any short list of detections    *)
(***************************************************************************)
NMSInit ==
    /\ nms_input \in SeqsUpTo(GlobalDetections, MaxDets)
    /\ iou_threshold \in IouThresholds
    /\ nms_result = [returned |-> FALSE, indices |-> <<>>, kept |-> <<>>]
    /\ IdleTiler /\ IdlePipe /\ IdleBatch

RemoveDuplicatesCall ==
    /\ ~nms_result.returned
    /\ nms_result' = [returned |-> TRUE,
                      indices  |-> KeptIndices(nms_input, iou_threshold),
                      kept     |-> RemoveDuplicateDetections(nms_input, iou_threshold)]
    /\ UNCHANGED <<nms_input, iou_threshold, tilerVars, pipeVars, batchVars>>

SpecNMS == NMSInit /\ [][RemoveDuplicatesCall]_vars

(***************************************************************************)
(* Claims about split_image_into_tiles (checked under SpecTiler)           *)
(***************************************************************************)
SplitReturned == split_result # Pending
ValidConfig   == tile_size > 0 /\ 0 <= overlap /\ overlap < tile_size
RasterFits    == width >= tile_size /\ height >= tile_size

\* pixel (px, py) lies in the tile_size square of some returned origin
PixelCovered(px, py) ==
    \E k \in 1..Len(split_result.positions) :
        LET o == split_result.positions[k]
        IN  /\ o[1] <= px /\ px < o[1] + tile_size
            /\ o[2] <= py /\ py < o[2] + tile_size

\* C1: for a valid configuration and a raster at least one tile wide and high,
\* every pixel of the raster lies in the square of at least one returned origin.
C1_EveryPixelCovered ==
    (SplitReturned /\ ValidConfig /\ RasterFits)
        => \A px \in 0..(width - 1), py \in 0..(height - 1) : PixelCovered(px, py)

\* the y (or x) origins of the regular grid along an axis of length dim
RegularOrigins(dim) ==
    {k \in 0..dim : k % (tile_size - overlap) = 0 /\ k + tile_size <= dim}

\* C2: whenever (width - tile_size) is not a multiple of step there is a tile at
\* x = width - tile_size for every regular y; whenever (height - tile_size) is not
\* a multiple of step there is one at y = height - tile_size for every regular x;
\* and when both hold there is the corner tile (width - tile_size, height - tile_size).
C2_EdgeTilesWhenGridStopsShort ==
    (SplitReturned /\ ValidConfig /\ RasterFits) =>
        LET step   == tile_size - overlap
            ps     == Range(split_result.positions)
            shortX == (width - tile_size) % step # 0
            shortY == (height - tile_size) % step # 0
        IN  /\ shortX => \A y \in RegularOrigins(height) : <<width - tile_size, y>> \in ps
            /\ shortY => \A x \in RegularOrigins(width) : <<x, height - tile_size>> \in ps
            /\ (shortX /\ shortY) => <<width - tile_size, height - tile_size>> \in ps

\* C5: a raster narrower or lower than one tile makes the call fail (with the
\* error that stands for RasterTooSmall, whatever its name) and return no tile.
C5_TooSmallRasterFails ==
    (SplitReturned /\ ValidConfig /\ (width < tile_size \/ height < tile_size))
        => /\ split_result.error # None
           /\ split_result.positions = <<>>

\* C6: tile_size <= 0, overlap < 0 or overlap >= tile_size makes the call fail
\* (with the error that stands for InvalidConfiguration, whatever its name) and
\* return no tile.
C6_BadConfigurationFails ==
    (SplitReturned /\ ~ValidConfig)
        => /\ split_result.error # None
           /\ split_result.positions = <<>>

(***************************************************************************)
(* Claims about remove_duplicate_detections (checked under SpecNMS)        *)
(***************************************************************************)
\* IoU of two boxes read as corners (x1, y1, x2, y2) exceeds thr
CornerIoUExceeds(a, b, thr) ==
    LET iw    == Max(0, Min(a[3], b[3]) - Max(a[1], b[1]))
        ih    == Max(0, Min(a[4], b[4]) - Max(a[2], b[2]))
        inter == iw * ih
        union == (a[3] - a[1]) * (a[4] - a[2]) + (b[3] - b[1]) * (b[4] - b[2]) - inter
    IN  union > 0 /\ inter * thr[2] > thr[1] * union

\* greedy suppression over the indices `order`: keep the first, drop what it
\* suppresses, go on with the rest
RECURSIVE GreedyKeep(_, _, _)
GreedyKeep(dets, order, thr) ==
    IF order = <<>> THEN <<>>
    ELSE LET best == Head(order)
             rest == SelectSeq(Tail(order),
                        LAMBDA j : ~CornerIoUExceeds(dets[j].bbox, dets[best].bbox, thr))
         IN  <<best>> \o GreedyKeep(dets, rest, thr)

\* the reference procedure: score filter, then greedy suppression by corner IoU
ReferenceKept(dets, thr) ==
    LET scores == [k \in 1..Len(dets) |-> dets[k].confidence]
        alive  == {i \in 1..Len(dets) : ~(scores[i] < ScoreThreshold)}
    IN  GreedyKeep(dets, SortedByScore(scores, alive), thr)

\* C3: the detections returned are exactly those the reference procedure keeps.
C3_MatchesReferenceNMS ==
    nms_result.returned =>
        Range(nms_result.kept)
            = {nms_input[i] : i \in Range(ReferenceKept(nms_input, iou_threshold))}

(***************************************************************************)
(* Spec: one call process_census_tract(image_path, output_path), step by   *)
(* step.  dedupe_log records every call of remove_duplicate_detections:    *)
(* its argument and how far the tile loop and the mapping had got;         *)
(* oracle_log records what self.model(tile) did on each tile so far.       *)
(***************************************************************************)
Init ==
    /\ raster \in {f \in FilesOf(Shapes) : f.copyable}
    /\ output_path \in BOOLEAN
    /\ pc = "load" /\ image = NoImage
    /\ tiles = <<>> /\ positions = <<>> /\ tile_i = 0 /\ detections = <<>>
    /\ mapped_detections = <<>> /\ final_detections = <<>>
    /\ result_image = NoFile /\ output_file = NoFile /\ err = None
    /\ dedupe_log = <<>> /\ oracle_log = <<>>
    /\ IdleTiler /\ IdleNMS /\ IdleBatch

\* lines 134-136: imread, and the ValueError when it returns None
Load ==
    /\ pc = "load"
    /\ image' = Imread(raster)
    /\ IF image'.loaded
       THEN pc' = "split" /\ err' = err
       ELSE pc' = "failed" /\ err' = "ValueError"
    /\ UNCHANGED <<raster, output_path, oracle_log, tiles, positions, tile_i, detections,
                   mapped_detections, final_detections, result_image, output_file,
                   dedupe_log, tilerVars, nmsVars, batchVars>>

\* SplitStep as it would be with the image saved to output_path before detection
SplitStepSavingFirst ==
    /\ pc = "split"
    /\ LET r == SplitImageIntoTiles(image.width, image.height,
                                    DefaultTileSize, DefaultOverlap)
       IN  /\ tiles' = r.tiles /\ positions' = r.positions
           /\ IF r.error = None
              THEN pc' = "detect" /\ err' = err
              ELSE pc' = "failed" /\ err' = r.error
    /\ tile_i' = 0 /\ detections' = <<>>
    /\ output_file' = IF output_path THEN Rendered(image, <<>>) ELSE output_file
    /\ UNCHANGED <<raster, output_path, oracle_log, image, mapped_detections, final_detections,
                   result_image, dedupe_log, tilerVars, nmsVars, batchVars>>

\* Step 1 (line 141)
SplitStep ==
    /\ pc = "split"
    /\ LET r == SplitImageIntoTiles(image.width, image.height,
                                    DefaultTileSize, DefaultOverlap)
       IN  /\ tiles' = r.tiles /\ positions' = r.positions
           /\ IF r.error = None
              THEN pc' = "detect" /\ err' = err
              ELSE pc' = "failed" /\ err' = r.error
    /\ tile_i' = 0 /\ detections' = <<>>
    /\ UNCHANGED <<raster, output_path, oracle_log, image, mapped_detections, final_detections,
                   result_image, output_file, dedupe_log, tilerVars, nmsVars, batchVars>>

\* DetectTile as it would be with the duplicates removed tile by tile
DetectTileDedupingPerTile ==
    /\ pc = "detect" /\ tile_i < Len(tiles)
    /\ \E out \in OracleOutcomes :
        /\ oracle_log' = Append(oracle_log, out)
        /\ IF out.raises
           THEN /\ pc' = "failed" /\ err' = "DetectionFailure"
                /\ UNCHANGED <<tile_i, detections, dedupe_log>>
           ELSE LET found == DetectionsOfTile(tile_i, out.boxes, ConfidenceThreshold)
                    local == MapToFullImage(found, positions)
                IN  /\ detections' = detections \o found
                    /\ dedupe_log' = Append(dedupe_log, [argument   |-> local,
                                                         tiles_done |-> tile_i,
                                                         mapped     |-> Len(local)])
                    /\ tile_i' = tile_i + 1
                    /\ UNCHANGED <<pc, err>>
    /\ UNCHANGED <<raster, output_path, image, tiles, positions, mapped_detections,
                   final_detections, result_image, output_file,
                   tilerVars, nmsVars, batchVars>>

\* Step 2, one pass of the loop of process_tiles (lines 59-78): the oracle call
\* on tile tile_i either raises, which nothing catches, or returns its boxes
DetectTile ==
    /\ pc = "detect" /\ tile_i < Len(tiles)
    /\ \E out \in OracleOutcomes :
        /\ oracle_log' = Append(oracle_log, out)
        /\ IF out.raises
           THEN /\ pc' = "failed" /\ err' = "DetectionFailure"
                /\ UNCHANGED <<tile_i, detections>>
           ELSE /\ detections' = detections
                       \o DetectionsOfTile(tile_i, out.boxes, ConfidenceThreshold)
                /\ tile_i' = tile_i + 1
                /\ UNCHANGED <<pc, err>>
    /\ UNCHANGED <<raster, output_path, image, tiles, positions, mapped_detections,
                   final_detections, result_image, output_file, dedupe_log,
                   tilerVars, nmsVars, batchVars>>

\* the loop is over (line 80); Step 3 (line 149)
MapStep ==
    /\ pc = "detect" /\ tile_i = Len(tiles)
    /\ mapped_detections' = MapToFullImage(detections, positions)
    /\ pc' = "dedupe"
    /\ UNCHANGED <<raster, output_path, oracle_log, image, tiles, positions, tile_i, detections,
                   final_detections, result_image, output_file, err, dedupe_log,
                   tilerVars, nmsVars, batchVars>>

\* Step 4 (line 152)
DedupeStep ==
    /\ pc = "dedupe"
    /\ final_detections' = RemoveDuplicateDetections(mapped_detections, DefaultIou)
    /\ dedupe_log' = Append(dedupe_log, [argument   |-> mapped_detections,
                                         tiles_done |-> tile_i,
                                         mapped     |-> Len(mapped_detections)])
    /\ pc' = "render"
    /\ UNCHANGED <<raster, output_path, oracle_log, image, tiles, positions, tile_i, detections,
                   mapped_detections, result_image, output_file, err,
                   tilerVars, nmsVars, batchVars>>

\* Render as it would be drawing on the loaded image instead of a copy of it
RenderInPlace ==
    /\ pc = "render"
    /\ result_image' = Rendered(image, final_detections)
    /\ image' = [image EXCEPT !.drawn = result_image'.drawn]
    /\ pc' = "save"
    /\ UNCHANGED <<raster, output_path, oracle_log, tiles, positions, tile_i,
                   detections, mapped_detections, final_detections, output_file, err,
                   dedupe_log, tilerVars, nmsVars, batchVars>>

\* Step 5 (lines 156-167)
Render ==
    /\ pc = "render"
    /\ result_image' = Rendered(image, final_detections)
    /\ pc' = "save"
    /\ UNCHANGED <<raster, output_path, oracle_log, image, tiles, positions, tile_i,
                   detections, mapped_detections, final_detections, output_file, err,
                   dedupe_log, tilerVars, nmsVars, batchVars>>

\* lines 170-174: the optional imwrite, and the return
SaveAndReturn ==
    /\ pc = "save"
    /\ output_file' = IF output_path THEN result_image ELSE output_file
    /\ pc' = "done"
    /\ UNCHANGED <<raster, output_path, oracle_log, image, tiles, positions, tile_i, detections,
                   mapped_detections, final_detections, result_image, err, dedupe_log,
                   tilerVars, nmsVars, batchVars>>

Next ==
    \/ Load \/ SplitStep \/ DetectTile \/ MapStep \/ DedupeStep \/ Render
    \/ SaveAndReturn

Spec == Init /\ [][Next]_vars

(***************************************************************************)
(* SpecBatch: one call process_tiles_to_folders(tiles_directory).  A file  *)
(* is named by its index in tile_files; before_dir and after_dir are the   *)
(* names of the files present in the two output folders.                   *)
(***************************************************************************)
BatchInit ==
    /\ bpc = "glob"
    /\ tile_files \in SeqsUpTo(FilesOf(BatchShapes), MaxRasters)
    /\ file_i = 0
    /\ before_dir = {} /\ after_dir = {} /\ processed_tiles = <<>>
    /\ all_detections = <<>> /\ summary = NoSummary
    /\ IdleTiler /\ IdleNMS /\ IdlePipe

\* lines 70-90: tile_files is what glob finds (*.png, else *.jpg); no image
\* file, no run (returns None); else the two folders are made
FindTiles ==
    /\ bpc = "glob"
    /\ bpc' = IF tile_files = <<>> THEN "returned_none" ELSE "loop"
    /\ file_i' = 1
    /\ UNCHANGED <<tile_files, before_dir, after_dir, processed_tiles,
                   all_detections, summary, tilerVars, nmsVars, pipeVars>>

\* the dict appended on lines 116-125
TileInfo(name, dets) ==
    [tile_name |-> name, detections_count |-> Len(dets), detections |-> dets]

\* one pass of the loop, lines 92-134.  shutil.copy2 (line 98) stands before
\* the try: when it raises, the exception leaves process_tiles_to_folders.
\* Whatever process_census_tract raises is caught on line 132.  On success the
\* file of after_path is written (line 171) and rewritten with the patch grid
\* drawn on it (lines 110-113).
ProcessOneFile ==
    /\ bpc = "loop" /\ file_i <= Len(tile_files)
    /\ LET f == tile_files[file_i]
       IN  IF ~f.copyable
           THEN /\ bpc' = "aborted"
                /\ UNCHANGED <<file_i, before_dir, after_dir, processed_tiles,
                               all_detections>>
           ELSE /\ before_dir' = before_dir \cup {file_i}
                /\ \E oracle \in [1..Len(TilesOfFile(f).tiles) -> OracleOutcomes] :
                     LET r == ProcessCensusTract(f, oracle)
                     IN  IF r.error = None
                         THEN /\ after_dir' = after_dir \cup {file_i}
                              /\ processed_tiles' =
                                    Append(processed_tiles, TileInfo(file_i, r.detections))
                              /\ all_detections' = all_detections \o r.detections
                         ELSE UNCHANGED <<after_dir, processed_tiles, all_detections>>
                /\ file_i' = file_i + 1
                /\ bpc' = bpc
    /\ UNCHANGED <<tile_files, summary, tilerVars, nmsVars, pipeVars>>

\* lines 136-158: the summary, written and returned
WriteSummary ==
    /\ bpc = "loop" /\ file_i > Len(tile_files)
    /\ summary' = [written               |-> TRUE,
                   total_tiles_processed |-> Len(processed_tiles),
                   total_detections      |-> Len(all_detections),
                   tiles                 |-> processed_tiles]
    /\ bpc' = "done"
    /\ UNCHANGED <<tile_files, file_i, before_dir, after_dir, processed_tiles,
                   all_detections, tilerVars, nmsVars, pipeVars>>

BatchNext == FindTiles \/ ProcessOneFile \/ WriteSummary

SpecBatch == BatchInit /\ [][BatchNext]_vars

(***************************************************************************)
(* Claims about process_census_tract (checked under Spec)                  *)
(***************************************************************************)
\* C4: an oracle failure on a tile does not abort the raster: the run never ends
\* failed because of a detection failure.
C4_OracleFailureDoesNotAbort ==
    ~(pc = "failed" /\ err = "DetectionFailure")

\* C9: remove_duplicate_detections is called at most once in a run, exactly once
\* in a run that gets past Step 4, and when it is called every tile has been
\* through detection and its argument is the mapping of every tile's detections.
C9_DedupeOnceAfterAllTiles ==
    /\ Len(dedupe_log) <= 1
    /\ pc \in {"render", "save", "done"} => Len(dedupe_log) = 1
    /\ \A k \in 1..Len(dedupe_log) :
          /\ dedupe_log[k].tiles_done = Len(tiles)
          /\ dedupe_log[k].mapped = Len(detections)
          /\ dedupe_log[k].argument = MapToFullImage(detections, positions)

\* a finished run over several tiles with detections from more than one of them
C9_Witness ==
    /\ pc = "done" /\ Len(dedupe_log) = 1 /\ Len(tiles) >= 2
    /\ \E a, b \in 1..Len(detections) : detections[a].tile_idx # detections[b].tile_idx

\* C10: a failed run has written no file to output_path.
C10_NoOutputOnFailure ==
    pc = "failed" => output_file = NoFile

\* a run given an output_path that failed in detection, after some tiles
C10_Witness ==
    /\ pc = "failed" /\ err = "DetectionFailure" /\ output_path /\ tile_i >= 1
    /\ output_file = NoFile

(***************************************************************************)
(* Claims about process_tiles_to_folders (checked under SpecBatch)         *)
(***************************************************************************)
\* C7: no failure on a single raster aborts the batch: the loop is never left
\* by an exception.
C7_BatchNeverAborts ==
    bpc # "aborted"

\* C8: every raster of the input directory appears in the summary; the summary
\* has one list of items, "tiles", and no list of skipped or failed ones.
C8_EveryRasterInSummary ==
    bpc = "done" =>
        \A i \in 1..Len(tile_files) :
            \E k \in 1..Len(summary.tiles) : summary.tiles[k].tile_name = i

(***************************************************************************)
(* Claims about map_to_full_image and process_tiles (checked under Spec)   *)
(***************************************************************************)
MappingDone == pc \in {"dedupe", "render", "save", "done"}

\* the origin of the tile that produced the k-th tile-local detection
OriginOf(k) == positions[detections[k].tile_idx + 1]

BuiltFrom(k, i, c) ==
    /\ detections[k].tile_idx = i
    /\ detections[k].confidence = c.conf
    /\ detections[k].bbox = c.xyxy

\* C12: of the candidates the oracle returned for the tiles processed so far,
\* exactly those with confidence strictly above confidence_threshold have a
\* detection, and every detection comes from such a candidate.
C12_StrictConfidenceFilter ==
    (pc # "failed" /\ Len(oracle_log) = tile_i) =>
        /\ \A i \in 1..Len(oracle_log) : \A j \in 1..Len(oracle_log[i].boxes) :
              LET c == oracle_log[i].boxes[j]
              IN  (\E k \in 1..Len(detections) : BuiltFrom(k, i - 1, c))
                      <=> c.conf > ConfidenceThreshold
        /\ \A k \in 1..Len(detections) :
              \E j \in 1..Len(oracle_log[detections[k].tile_idx + 1].boxes) :
                  BuiltFrom(k, detections[k].tile_idx,
                            oracle_log[detections[k].tile_idx + 1].boxes[j])

\* process_tiles has returned having seen a candidate exactly at the threshold,
\* which it dropped, and one above it, which it kept
C12_Witness ==
    /\ pc = "done"
    /\ \E i \in 1..Len(oracle_log) : \E j \in 1..Len(oracle_log[i].boxes) :
          oracle_log[i].boxes[j].conf = ConfidenceThreshold
    /\ \E k \in 1..Len(detections) : detections[k].confidence > ConfidenceThreshold

\* C16: the loaded input image is never changed: from the load to the return its
\* pixels are those that were read from the file (boxes and labels go on a copy).
C16_InputRasterNeverMutated ==
    image.loaded => image = Imread(raster)

\* a finished run that drew at least one box, on the copy
C16_Witness ==
    /\ pc = "done" /\ image.loaded
    /\ Len(result_image.drawn) >= 1 /\ image.drawn = <<>>

(***************************************************************************)
(* Further claims about remove_duplicate_detections (checked under SpecNMS)*)
(***************************************************************************)
\* C13: deduplicating the returned list again, with the same threshold, returns
\* the same set of detections.
C13_DedupeIdempotent ==
    nms_result.returned =>
        Range(RemoveDuplicateDetections(nms_result.kept, iou_threshold))
            = Range(nms_result.kept)

\* a call that suppressed one detection and kept several others
C13_Witness ==
    /\ nms_result.returned
    /\ \A k \in 1..Len(nms_input) : nms_input[k].confidence > ScoreThreshold
    /\ Len(nms_result.kept) >= 2 /\ Len(nms_result.kept) < Len(nms_input)

\* input detections i and j suppress each other, as the code measures overlap
MutuallySuppressing(i, j) ==
    RectOverlapExceeds(AsRect(nms_input[i].bbox), AsRect(nms_input[j].bbox),
                       iou_threshold)

\* input detection k is dealt with before input detection i
RanksBefore(k, i) ==
    \/ nms_input[k].confidence > nms_input[i].confidence
    \/ nms_input[k].confidence = nms_input[i].confidence /\ k < i

HasRun(from, seq) ==
    /\ from + Len(seq) <= Len(split_result.positions)
    /\ \A k \in 1..Len(seq) : split_result.positions[from + k] = seq[k]

\* C15: for a valid configuration the positions list is the regular-grid origins
\* in raster-scan order (rows top to bottom, left to right within a row), then the
\* right-edge column (if any), then the bottom row (if any), then the corner (if
\* any), and nothing else; and tiles[i] is a crop whose top-left pixel is
\* positions[i].
C15_OrderAndCropOrigin ==
    (SplitReturned /\ split_result.error = None /\ ValidConfig) =>
        LET step    == tile_size - overlap
            nx      == Cardinality(RegularOrigins(width))
            ny      == Cardinality(RegularOrigins(height))
            ps      == split_result.positions
            regular == [k \in 1..(nx * ny) |->
                          <<((k - 1) % nx) * step, ((k - 1) \div nx) * step>>]
            right   == [k \in 1..ny |-> <<width - tile_size, (k - 1) * step>>]
            bottom  == [k \in 1..nx |-> <<(k - 1) * step, height - tile_size>>]
            corner  == << <<width - tile_size, height - tile_size>> >>
        IN  /\ HasRun(0, regular)
            /\ \E r \in {<<>>, right}, b \in {<<>>, bottom}, c \in {<<>>, corner} :
                  /\ HasRun(nx * ny, r)
                  /\ HasRun(nx * ny + Len(r), b)
                  /\ HasRun(nx * ny + Len(r) + Len(b), c)
                  /\ Len(ps) = nx * ny + Len(r) + Len(b) + Len(c)
            /\ Len(split_result.tiles) = Len(ps)
            /\ \A k \in 1..Len(ps) :
                  /\ split_result.tiles[k].xs[1] = ps[k][1]
                  /\ split_result.tiles[k].ys[1] = ps[k][2]

\* C17: for a valid configuration and a raster at least one tile wide and high,
\* no origin is emitted twice.
C17_PositionsPairwiseDistinct ==
    (SplitReturned /\ ValidConfig /\ RasterFits) =>
        \A k, l \in 1..Len(split_result.positions) :
            k # l => split_result.positions[k] # split_result.positions[l]

(***************************************************************************)
(* The patch grid drawn on a result image against the tiles of the image   *)
(***************************************************************************)
\* image sides: every multiple of 20 pixels, and one pixel more
GridDims == {20 * k + d : k \in 0..MaxGridUnits, d \in {0, 1}} \ {0}

GridInit ==
    /\ tile_size = DefaultTileSize /\ overlap = DefaultOverlap
    /\ width \in GridDims /\ height \in GridDims
    /\ split_result = Pending
    /\ grid_result = NotDrawn
    /\ IdleNMS /\ IdlePipe /\ IdleBatch

AddPatchGrid ==
    /\ ~grid_result.drawn
    /\ grid_result' = [drawn |-> TRUE, rectangles |-> PatchGridRectangles(width, height)]
    /\ UNCHANGED <<tile_size, overlap, width, height, split_result,
                   nmsVars, pipeVars, batchVars>>

GridNext == SplitImageCall \/ AddPatchGrid

SpecGrid == GridInit /\ [][GridNext]_vars

\* C18: for every image size, the set of rectangles the patch grid draws is the
\* set of tile squares (origin to origin + tile size) of the tiles that
\* split_image_into_tiles returns for an image of that size with its defaults.
C18_PatchGridMatchesTiles ==
    (SplitReturned /\ grid_result.drawn) =>
        Range(grid_result.rectangles)
            = {<<p[1], p[2], p[1] + tile_size, p[2] + tile_size>> :
                   p \in Range(split_result.positions)}

\* both were computed for an image with a right-edge column, a bottom row and a
\* corner beside a regular grid
C18_Witness ==
    /\ SplitReturned /\ grid_result.drawn
    /\ width > SelfTileSize /\ height > SelfTileSize
    /\ width % (SelfTileSize - SelfOverlap) # 0
    /\ height % (SelfTileSize - SelfOverlap) # 0
    /\ <<width - SelfTileSize, height - SelfTileSize,  width, height>>
           \in Range(grid_result.rectangles)

====
